---- MODULE Spec2Model ----
(***************************************************************************)
(* chirpchirp-core-api: the GET /images (lines 62-211), GET /images/:id    *)
(* (214-248) and GET /species (271-302) handlers of src/src/index.ts over  *)
(* a store of images and attributions.                                     *)
(*                                                                         *)
(* Strings the handler inspects character by character (page, limit,       *)
(* species labels) are sequences of one-character strings.  A missing      *)
(* query parameter is Undefined, a missing column value is NullLabel.      *)
(* Nullable scalars (dateThreshold, count) are <<>> for null and <<v>>     *)
(* for a value.  Instants are whole seconds: the code's millisecond        *)
(* factors are divided by 1000, which keeps the order and the differences  *)
(* of the instants used here.                                              *)
(***************************************************************************)
EXTENDS Integers, Sequences, FiniteSets, TLC

\* ------------------------------------------------------------------ bounds
MaxImages == 2
MaxAttrs == 2

\* --------------------------------------------------------------- constants
DefaultPage == 1
DefaultLimit == 20
Now == 40000000
DaySeconds == 24 * 60 * 60

Undefined == <<"undefined">>
NullLabel == <<"null">>

\* ------------------------------------------------------------ pure helpers
Digits == {"0", "1", "2", "3", "4", "5", "6", "7", "8", "9"}

DigitVal(c) ==
  CASE c = "0" -> 0 [] c = "1" -> 1 [] c = "2" -> 2 [] c = "3" -> 3
    [] c = "4" -> 4 [] c = "5" -> 5 [] c = "6" -> 6 [] c = "7" -> 7
    [] c = "8" -> 8 [] c = "9" -> 9

IsSpace(c) == c = " "

RECURSIVE SkipSpaces(_)
SkipSpaces(s) ==
  IF s # <<>> /\ IsSpace(Head(s)) THEN SkipSpaces(Tail(s)) ELSE s

RECURSIVE DigitRun(_, _, _)
\* <<any digit seen, value of the leading run of digits>>
DigitRun(s, seen, acc) ==
  IF s # <<>> /\ Head(s) \in Digits
  THEN DigitRun(Tail(s), TRUE, acc * 10 + DigitVal(Head(s)))
  ELSE <<seen, acc>>

\* a parseInt that rejects trailing characters
ParseIntStrict(s) ==
  IF s = Undefined THEN <<>>
  ELSE LET t == SkipSpaces(s)
           neg == t # <<>> /\ Head(t) = "-"
           u == IF t # <<>> /\ Head(t) \in {"-", "+"} THEN Tail(t) ELSE t
           r == DigitRun(u, FALSE, 0)
       IN IF r[1] /\ \A i \in DOMAIN u : u[i] \in Digits
          THEN <<IF neg THEN 0 - r[2] ELSE r[2]>> ELSE <<>>

\* parseInt(x): <<>> is NaN, <<n>> the integer parsed.  Leading blanks are
\* skipped, one sign is read, then the longest run of decimal digits.
ParseInt(s) ==
  IF s = Undefined THEN <<>>
  ELSE LET t == SkipSpaces(s)
           neg == t # <<>> /\ Head(t) = "-"
           u == IF t # <<>> /\ Head(t) \in {"-", "+"} THEN Tail(t) ELSE t
           r == DigitRun(u, FALSE, 0)
       IN IF r[1] THEN <<IF neg THEN 0 - r[2] ELSE r[2]>> ELSE <<>>

\* parseInt(x) || d : NaN and 0 are falsy
OrDefault(p, d) == IF p = <<>> \/ p[1] = 0 THEN d ELSE p[1]

\* an offset that takes the page as zero-based
OffsetZeroBased(p, l) == p * l

\* (page - 1) * limit
Offset(p, l) == (p - 1) * l

RECURSIVE TrimLeft(_)
TrimLeft(s) == IF s # <<>> /\ IsSpace(Head(s)) THEN TrimLeft(Tail(s)) ELSE s

RECURSIVE TrimRight(_)
TrimRight(s) ==
  IF s # <<>> /\ IsSpace(s[Len(s)]) THEN TrimRight(SubSeq(s, 1, Len(s) - 1)) ELSE s

\* String.prototype.trim
Trim(s) == TrimRight(TrimLeft(s))

\* a validity test that forgets to trim
ValidSpeciesUntrimmed(sp) == sp # NullLabel /\ sp # <<>>

\* attr.species && attr.species.trim() !== ""
ValidSpecies(sp) == sp # NullLabel /\ sp # <<>> /\ Trim(sp) # <<>>

\* a query string value is truthy unless it is missing or empty
Truthy(v) == v # Undefined /\ v # <<>>

\* Math.ceil(a / b), b # 0, a >= 0
CeilDiv(a, b) == IF b > 0 THEN (a + b - 1) \div b ELSE 0 - (a \div (0 - b))

\* the switch on timeRange: <<>> is a null dateThreshold
Threshold(tr, now) ==
  CASE tr = "1D" -> <<now - DaySeconds>>
    [] tr = "7D" -> <<now - 7 * DaySeconds>>
    [] tr = "1M" -> <<now - 30 * DaySeconds>>
    [] tr = "3M" -> <<now - 90 * DaySeconds>>
    [] tr = "1YR" -> <<now - 365 * DaySeconds>>
    [] OTHER -> <<>>

\* a window that leaves out the bound itself
InWindowStrict(img, th) == th = <<>> \/ img.taken_on > th[1]

\* .gte("taken_on", dateThreshold), applied only when dateThreshold is set
InWindow(img, th) == th = <<>> \/ img.taken_on >= th[1]

Matching(tbl, th) == {i \in DOMAIN tbl : InWindow(tbl[i], th)}

\* oldest first
SortedAsc(s) == \A i \in 1..(Len(s) - 1) : s[i].taken_on <= s[i + 1].taken_on

\* .order("taken_on", {ascending: false}): ties in any order
SortedDesc(s) == \A i \in 1..(Len(s) - 1) : s[i].taken_on >= s[i + 1].taken_on

Perms(S) == {f \in [1..Cardinality(S) -> S] : \A i, j \in DOMAIN f : i # j => f[i] # f[j]}

Orderings(tbl, th) ==
  {s \in {[k \in DOMAIN f |-> tbl[f[k]]] : f \in Perms(Matching(tbl, th))} : SortedDesc(s)}

\* .range(from, to) on an ordered result
Range(s, from, to) ==
  IF from > Len(s) - 1 \/ to < from THEN <<>>
  ELSE SubSeq(s, from + 1, IF to + 1 < Len(s) THEN to + 1 ELSE Len(s))

ValidRange(from, to) == from >= 0 /\ to >= from

Ids(s) == {s[i].id : i \in DOMAIN s}

\* .in("image_id", imageIds): the rows of the given images, in any order
RowsOf(tbl, ids) == {i \in DOMAIN tbl : tbl[i].image_id \in ids}

Loads(tbl, ids) == {[k \in DOMAIN f |-> tbl[f[k]]] : f \in Perms(RowsOf(tbl, ids))}

\* the reduce that groups attributions by image_id, read at one key
GroupOf(attrs, id) == SelectSeq(attrs, LAMBDA a : a.image_id = id)

HasGroup(attrs, id) == \E i \in DOMAIN attrs : attrs[i].image_id = id

\* the predicate of images.filter(...)
Keep(attrs, img, filter) ==
  LET g == GroupOf(attrs, img.id)
  IN IF ~HasGroup(attrs, img.id) \/ ~\E i \in DOMAIN g : ValidSpecies(g[i].species)
     THEN FALSE
     ELSE IF Truthy(filter)
          THEN \E i \in DOMAIN g : g[i].species = filter
          ELSE TRUE

\* an enrichment that attaches the valid attributions only
EnrichValidOnly(attrs, img) ==
  [id |-> img.id, taken_on |-> img.taken_on,
   attributions |-> SelectSeq(attrs, LAMBDA a : a.image_id = img.id /\ ValidSpecies(a.species))]

\* .map(img => ({...img, attributions: attributionsByImage[img.id] || []}))
Enrich(attrs, img) ==
  [id |-> img.id, taken_on |-> img.taken_on, attributions |-> GroupOf(attrs, img.id)]

RECURSIVE FilterSeq(_, _, _)
FilterSeq(s, attrs, filter) ==
  IF s = <<>> THEN <<>>
  ELSE (IF Keep(attrs, Head(s), filter) THEN <<Head(s)>> ELSE <<>>)
       \o FilterSeq(Tail(s), attrs, filter)

Compose(imgs, attrs, filter) ==
  LET kept == FilterSeq(imgs, attrs, filter)
  IN [k \in DOMAIN kept |-> Enrich(attrs, kept[k])]

OrZero(c) == IF c = <<>> THEN 0 ELSE c[1]

\* speciesFilter || null
OrNull(v) == IF Truthy(v) THEN v ELSE NullLabel


\* ------------------------------------------------------------------- state
VARIABLES
  imagesTable,        \* the images relation: rows [id, taken_on]
  attributionsTable,  \* the attributions relation: rows [image_id, species]
  query,              \* the request's raw query parameters
  pc,                 \* the handler's position
  page, limit, offset, timeRange, speciesFilter, dateThreshold,
  count,              \* count of the count query, <<>> when null
  images,             \* data of the image page query
  attributions,       \* data of the attribution query
  response,           \* <<>> until the handler returns, then <<payload>>
  calls,              \* the storage calls issued, in order
  failed              \* the storage calls that reported an error

vars == <<imagesTable, attributionsTable, query, pc, page, limit, offset, timeRange,
          speciesFilter, dateThreshold, count, images, attributions, response,
          calls, failed>>

store == <<imagesTable, attributionsTable, query>>
params == <<page, limit, offset, timeRange, speciesFilter, dateThreshold>>

\* ------------------------------------------------------------------ inputs
\* capture instants around the window bounds: on a bound, one second older
TakenOnValues ==
  {Now - DaySeconds, Now - DaySeconds - 1, Now - 7 * DaySeconds - 1,
   Now - 30 * DaySeconds - 1, Now - 90 * DaySeconds - 1, Now - 365 * DaySeconds,
   Now - 365 * DaySeconds - 1}

RecentValues == {Now - DaySeconds, Now - DaySeconds - 1}

PagingValues == {Now, Now - DaySeconds, Now - DaySeconds - 1}

Labels == {NullLabel, <<>>, <<" ">>, <<"J">>, <<" ", "J">>}

SeqsUpTo(S, n) == UNION {[1..k -> S] : k \in 0..n}

ImageTables(T, max) ==
  UNION {{[i \in 1..n |-> [id |-> i, taken_on |-> f[i]]] : f \in [1..n -> T]}
         : n \in 0..max}

\* every attribution references an existing image
AttributionTables(n, L) == SeqsUpTo([image_id : 1..n, species : L], MaxAttrs)

PageParams == {Undefined, <<"a">>, <<"0">>, <<"1">>, <<"2">>, <<"-", "1">>, <<"2", "a">>}
LimitParams == {Undefined, <<"a">>, <<"0">>, <<"1">>, <<"2">>, <<"-", "1">>}
TimeRangeParams == {"undefined", "", "1D", "7D", "1M", "3M", "1YR", "All", "1d"}
SpeciesParams == {Undefined, <<>>, <<"J">>}

InitWith(Tables, L, Pages, Limits, Ranges, Species) ==
  /\ imagesTable \in Tables
  /\ attributionsTable \in AttributionTables(Len(imagesTable), L)
  /\ query \in [page : Pages, limit : Limits, timeRange : Ranges, species : Species]
  /\ pc = "start"
  /\ page = 0 /\ limit = 0 /\ offset = 0
  /\ timeRange = "" /\ speciesFilter = Undefined /\ dateThreshold = <<>>
  /\ count = <<>> /\ images = <<>> /\ attributions = <<>>
  /\ response = <<>> /\ calls = <<>> /\ failed = {}

\* ----------------------------------------------------------------- handler
\* lines 63-105: parameters and the time window
Start ==
  /\ pc = "start"
  /\ LET p == OrDefault(ParseInt(query.page), DefaultPage)
         l == OrDefault(ParseInt(query.limit), DefaultLimit)
         tr == IF query.timeRange \in {"undefined", ""} THEN "All" ELSE query.timeRange
     IN /\ page' = p
        /\ limit' = l
        /\ offset' = Offset(p, l)
        /\ timeRange' = tr
        /\ speciesFilter' = query.species
        /\ dateThreshold' = Threshold(tr, Now)
  /\ pc' = "count"
  /\ UNCHANGED <<store, count, images, attributions, response, calls, failed>>

\* lines 107-114: the count query answers
CountQueryOk ==
  /\ pc = "count"
  /\ count' = <<Cardinality(Matching(imagesTable, dateThreshold))>>
  /\ calls' = Append(calls, "count")
  /\ pc' = "page"
  /\ UNCHANGED <<store, params, images, attributions, response, failed>>

\* lines 107-114: the count query fails; only `count` is read from its
\* result, so the error is dropped and count is null
CountQueryFail ==
  /\ pc = "count"
  /\ count' = <<>>
  /\ calls' = Append(calls, "count")
  /\ failed' = failed \cup {"count"}
  /\ pc' = "page"
  /\ UNCHANGED <<store, params, images, attributions, response>>

\* lines 133-143: the payload of an empty page
EmptyPayload ==
  [images |-> <<>>,
   pagination |-> [page |-> page, limit |-> limit, total |-> 0, totalPages |-> 0]]

\* an empty page that goes on to the attribution query
ImagesQueryEmptyNoReturn ==
  /\ pc = "page"
  /\ \/ ~ValidRange(offset, offset + limit - 1)
     \/ /\ ValidRange(offset, offset + limit - 1)
        /\ \E s \in Orderings(imagesTable, dateThreshold) :
             Range(s, offset, offset + limit - 1) = <<>>
  /\ images' = <<>>
  /\ calls' = Append(calls, "page")
  /\ pc' = "attributions"
  /\ UNCHANGED <<store, params, count, attributions, response, failed>>

\* lines 116-143: the page query answers with no rows
ImagesQueryEmpty ==
  /\ pc = "page"
  /\ \/ ~ValidRange(offset, offset + limit - 1)
     \/ /\ ValidRange(offset, offset + limit - 1)
        /\ \E s \in Orderings(imagesTable, dateThreshold) :
             Range(s, offset, offset + limit - 1) = <<>>
  /\ images' = <<>>
  /\ calls' = Append(calls, "page")
  /\ response' = <<EmptyPayload>>
  /\ pc' = "returned"
  /\ UNCHANGED <<store, params, count, attributions, failed>>

\* lines 116-131: the page query answers with rows
ImagesQueryOk ==
  /\ pc = "page"
  /\ ValidRange(offset, offset + limit - 1)
  /\ \E s \in Orderings(imagesTable, dateThreshold) :
       /\ Range(s, offset, offset + limit - 1) # <<>>
       /\ images' = Range(s, offset, offset + limit - 1)
  /\ calls' = Append(calls, "page")
  /\ pc' = "attributions"
  /\ UNCHANGED <<store, params, count, attributions, response, failed>>

\* lines 126-131: the page query fails and the error is thrown
ImagesQueryFail ==
  /\ pc = "page"
  /\ calls' = Append(calls, "page")
  /\ failed' = failed \cup {"page"}
  /\ pc' = "thrown"
  /\ UNCHANGED <<store, params, count, images, attributions, response>>

\* lines 194-206: the payload of a page with rows
Payload(attrs) ==
  [images |-> Compose(images, attrs, speciesFilter),
   pagination |-> [page |-> page, limit |-> limit, total |-> OrZero(count),
                   totalPages |-> CeilDiv(OrZero(count), limit)],
   filters |-> [timeRange |-> timeRange, species |-> OrNull(speciesFilter)]]

\* lines 145-206: the attribution query answers; group, filter, map, return
AttributionsQueryOk ==
  /\ pc = "attributions"
  /\ \E a \in Loads(attributionsTable, Ids(images)) :
       /\ attributions' = a
       /\ response' = <<Payload(a)>>
  /\ calls' = Append(calls, "attributions")
  /\ pc' = "returned"
  /\ UNCHANGED <<store, params, count, images, failed>>

\* lines 147-152: the attribution query fails and the error is thrown
AttributionsQueryFail ==
  /\ pc = "attributions"
  /\ calls' = Append(calls, "attributions")
  /\ failed' = failed \cup {"attributions"}
  /\ pc' = "thrown"
  /\ UNCHANGED <<store, params, count, images, attributions, response>>

Next ==
  \/ Start
  \/ CountQueryOk
  \/ CountQueryFail
  \/ ImagesQueryEmpty
  \/ ImagesQueryOk
  \/ ImagesQueryFail
  \/ AttributionsQueryOk
  \/ AttributionsQueryFail

\* composition: every species label and filter over whole pages
Init == InitWith(ImageTables(RecentValues, MaxImages), Labels, {Undefined},
                 {Undefined}, {"undefined"}, SpeciesParams)

Spec == Init /\ [][Next]_vars

\* time windows: every token against instants around every bound
InitTime == InitWith(ImageTables(TakenOnValues, MaxImages), {<<"J">>}, {Undefined},
                     {Undefined}, TimeRangeParams, {Undefined})

SpecTime == InitTime /\ [][Next]_vars

\* paging: pages and limits over one more image, with and without a window
InitPaging == InitWith(ImageTables(PagingValues, MaxImages + 1), {<<"J">>},
                       {Undefined, <<"2">>}, {Undefined, <<"1">>, <<"2">>},
                       {"undefined", "1D"}, {Undefined})

SpecPaging == InitPaging /\ [][Next]_vars

\* parameters: every page, limit, token and filter parameter
InitParams == InitWith(ImageTables({Now}, MaxImages), {<<"J">>}, PageParams,
                       LimitParams, TimeRangeParams, SpeciesParams)

SpecParams == InitParams /\ [][Next]_vars

\* --------------------------------------------------- GET /images/:id
\* confidence scores, in hundredths
Confidences == {10, 50, 90}

ScoredTables(n) ==
  SeqsUpTo([image_id : 1..n, species : {<<"J">>, <<>>}, confidence : Confidences],
           MaxAttrs)

\* lowest confidence first
ConfidenceAsc(s) == \A i \in 1..(Len(s) - 1) : s[i].confidence <= s[i + 1].confidence

\* .order("confidence", {ascending: false}): ties in any order
ConfidenceDesc(s) == \A i \in 1..(Len(s) - 1) : s[i].confidence >= s[i + 1].confidence

\* .eq("image_id", params.id).order("confidence", ...): the answers possible
ByConfidence(tbl, id) ==
  {s \in Loads(tbl, {id}) : ConfidenceDesc(s)}

\* .eq("id", params.id): the rows of the images relation with that id
ImageRows(id) == {r \in DOMAIN imagesTable : imagesTable[r].id = id}

\* line 226: the payload for an id that matches no row
NotFoundPayload == [error |-> "Image not found", status |-> 404]

\* lines 240-243: {...image, attributions}
ImagePayload(img, attrs) ==
  [id |-> img.id, taken_on |-> img.taken_on, attributions |-> attrs]

InitImage ==
  /\ imagesTable \in ImageTables({Now}, MaxImages)
  /\ attributionsTable \in ScoredTables(Len(imagesTable))
  /\ query \in [id : 1..(MaxImages + 1)]
  /\ pc = "lookup"
  /\ page = 0 /\ limit = 0 /\ offset = 0
  /\ timeRange = "" /\ speciesFilter = Undefined /\ dateThreshold = <<>>
  /\ count = <<>> /\ images = <<>> /\ attributions = <<>>
  /\ response = <<>> /\ calls = <<>> /\ failed = {}

\* lines 218-222: .single() finds the one row
ImageFound ==
  /\ pc = "lookup"
  /\ \E r \in ImageRows(query.id) :
       /\ Cardinality(ImageRows(query.id)) = 1
       /\ images' = <<imagesTable[r]>>
  /\ calls' = Append(calls, "image")
  /\ pc' = "imageAttributions"
  /\ UNCHANGED <<store, params, count, attributions, response, failed>>

\* lines 224-227: .single() finds no row (PGRST116): a payload, not an error
ImageNotFound ==
  /\ pc = "lookup"
  /\ ImageRows(query.id) = {}
  /\ calls' = Append(calls, "image")
  /\ response' = <<NotFoundPayload>>
  /\ pc' = "returned"
  /\ UNCHANGED <<store, params, count, images, attributions, failed>>

\* lines 224-228: the lookup fails otherwise and the error is thrown
ImageLookupFail ==
  /\ pc = "lookup"
  /\ calls' = Append(calls, "image")
  /\ failed' = failed \cup {"image"}
  /\ pc' = "thrown"
  /\ UNCHANGED <<store, params, count, images, attributions, response>>

\* lines 231-243: the attributions of the image, best first; merge and return
ImageAttributionsOk ==
  /\ pc = "imageAttributions"
  /\ \E a \in ByConfidence(attributionsTable, query.id) :
       /\ attributions' = a
       /\ response' = <<ImagePayload(images[1], a)>>
  /\ calls' = Append(calls, "attributions")
  /\ pc' = "returned"
  /\ UNCHANGED <<store, params, count, images, failed>>

\* lines 232-238: the attribution query fails and the error is thrown
ImageAttributionsFail ==
  /\ pc = "imageAttributions"
  /\ calls' = Append(calls, "attributions")
  /\ failed' = failed \cup {"attributions"}
  /\ pc' = "thrown"
  /\ UNCHANGED <<store, params, count, images, attributions, response>>

NextImage ==
  \/ ImageFound
  \/ ImageNotFound
  \/ ImageLookupFail
  \/ ImageAttributionsOk
  \/ ImageAttributionsFail

SpecImage == InitImage /\ [][NextImage]_vars

\* ------------------------------------------------------- GET /species
\* acc[attr.species] = (acc[attr.species] || 0) + 1, entries in insertion order
Bump(acc, sp) ==
  IF \E i \in DOMAIN acc : acc[i].species = sp
  THEN [i \in DOMAIN acc |->
          IF acc[i].species = sp
          THEN [species |-> sp, count |-> acc[i].count + 1] ELSE acc[i]]
  ELSE Append(acc, [species |-> sp, count |-> 1])

RECURSIVE CountSpecies(_, _)
\* the reduce over the attributions, lines 280-288
CountSpecies(attrs, acc) ==
  IF attrs = <<>> THEN acc
  ELSE CountSpecies(Tail(attrs),
                    IF ValidSpecies(Head(attrs).species)
                    THEN Bump(acc, Head(attrs).species) ELSE acc)

\* a comparator that puts the rarest first
GoesBeforeAsc(a, b) == a.count < b.count

\* (a, b) => b.count - a.count is negative: a sorts before b
GoesBefore(a, b) == a.count > b.count

\* e placed behind every entry it does not sort before (the sort is stable)
InsertEntry(sorted, e) ==
  LET k == Cardinality({i \in DOMAIN sorted : \A j \in 1..i : ~GoesBefore(e, sorted[j])})
  IN SubSeq(sorted, 1, k) \o <<e>> \o SubSeq(sorted, k + 1, Len(sorted))

RECURSIVE SortEntries(_, _)
\* .sort((a, b) => b.count - a.count)
SortEntries(entries, sorted) ==
  IF entries = <<>> THEN sorted
  ELSE SortEntries(Tail(entries), InsertEntry(sorted, Head(entries)))

\* lines 291-297
SpeciesPayload(attrs) == [species |-> SortEntries(CountSpecies(attrs, <<>>), <<>>)]

\* .from("attributions").select("species"): every row, in any order
AllRows(tbl) == {[k \in DOMAIN f |-> tbl[f[k]]] : f \in Perms(DOMAIN tbl)}

InitSpecies ==
  /\ imagesTable \in ImageTables({Now}, MaxImages)
  /\ attributionsTable
       \in SeqsUpTo([image_id : 1..Len(imagesTable), species : Labels], MaxAttrs + 1)
  /\ query = [id |-> 0]
  /\ pc = "species"
  /\ page = 0 /\ limit = 0 /\ offset = 0
  /\ timeRange = "" /\ speciesFilter = Undefined /\ dateThreshold = <<>>
  /\ count = <<>> /\ images = <<>> /\ attributions = <<>>
  /\ response = <<>> /\ calls = <<>> /\ failed = {}

\* lines 273-297: the query answers; count, sort, return
SpeciesQueryOk ==
  /\ pc = "species"
  /\ \E a \in AllRows(attributionsTable) :
       /\ attributions' = a
       /\ response' = <<SpeciesPayload(a)>>
  /\ calls' = Append(calls, "species")
  /\ pc' = "returned"
  /\ UNCHANGED <<store, params, count, images, failed>>

\* lines 273-277: the query fails and the error is thrown
SpeciesQueryFail ==
  /\ pc = "species"
  /\ calls' = Append(calls, "species")
  /\ failed' = failed \cup {"species"}
  /\ pc' = "thrown"
  /\ UNCHANGED <<store, params, count, images, attributions, response>>

NextSpecies ==
  \/ SpeciesQueryOk
  \/ SpeciesQueryFail

SpecSpecies == InitSpecies /\ [][NextSpecies]_vars

\* ------------------------------------------------------------------ claims
\* notions of the claims, stated on the store and the raw request
Blank(sp) == sp = NullLabel \/ \A k \in DOMAIN sp : sp[k] = " "

StoreRows(id) == {r \in DOMAIN attributionsTable : attributionsTable[r].image_id = id}

StoreHasValid(id) == \E r \in StoreRows(id) : ~Blank(attributionsTable[r].species)

StoreHasLabel(id, sp) == \E r \in StoreRows(id) : attributionsTable[r].species = sp

Succeeded(call) ==
  /\ \E i \in DOMAIN calls : calls[i] = call
  /\ call \notin failed

\* the handler returned the payload composed from a page with rows
Composed == pc = "returned" /\ Succeeded("attributions")

Listed(id) == \E k \in DOMAIN response[1].images : response[1].images[k].id = id

\* C1 as written: a fetched image is listed iff it has an attribution with a
\* non-blank species and either no species parameter was supplied or one of
\* its attributions carries exactly the supplied value.
C1_ListedIffSupplied ==
  Composed =>
    \A i \in DOMAIN images :
      Listed(images[i].id) <=>
        /\ StoreHasValid(images[i].id)
        /\ \/ query.species = Undefined
           \/ StoreHasLabel(images[i].id, query.species)

\* C1 amended: a fetched image is listed iff it has an attribution with a
\* non-blank species and either the species parameter is missing or empty or
\* one of its attributions carries exactly the supplied value.
C1_ListedIff ==
  Composed =>
    \A i \in DOMAIN images :
      Listed(images[i].id) <=>
        /\ StoreHasValid(images[i].id)
        /\ \/ query.species \in {Undefined, <<>>}
           \/ StoreHasLabel(images[i].id, query.species)

\* a filtered page: one image listed, one with a valid label dropped by the
\* filter
C1_Witness ==
  /\ Composed
  /\ query.species = <<"J">>
  /\ \E i, j \in DOMAIN images :
       /\ Listed(images[i].id)
       /\ ~Listed(images[j].id)
       /\ StoreHasValid(images[j].id)

\* the j-th row of the attribution query's answer that belongs to image id
Arrival(id, j) ==
  LET idx == {i \in DOMAIN attributions : attributions[i].image_id = id}
  IN attributions[CHOOSE i \in idx : Cardinality({x \in idx : x <= i}) = j]

Occurrences(seq, x) == Cardinality({i \in DOMAIN seq : seq[i] = x})

\* C2: a listed image carries all its attributions of the store, blank and
\* non-matching ones included, in the order the attribution query returned
\* them, and no attribution of another image.
C2_FullAttributions ==
  Composed =>
    \A k \in DOMAIN response[1].images :
      LET e == response[1].images[k]
      IN /\ Len(e.attributions) = Cardinality(StoreRows(e.id))
         /\ \A j \in DOMAIN e.attributions :
              /\ e.attributions[j].image_id = e.id
              /\ e.attributions[j] = Arrival(e.id, j)
         /\ \A r \in StoreRows(e.id) :
              Occurrences(e.attributions, attributionsTable[r])
                = Cardinality({q \in StoreRows(e.id) :
                                 attributionsTable[q] = attributionsTable[r]})

\* under a species filter a listed image carries a blank attribution next to
\* the matching one, while another image has an attribution of its own
C2_Witness ==
  /\ Composed
  /\ query.species = <<"J">>
  /\ \E k \in DOMAIN response[1].images :
       LET e == response[1].images[k]
       IN /\ Len(e.attributions) = 2
          /\ \E j \in DOMAIN e.attributions : Blank(e.attributions[j].species)

\* the lower bound the claims give for a token: days before now, or none
ClaimedDays ==
  [t \in {"1D", "7D", "1M", "3M", "1YR"} |->
     IF t = "1D" THEN 1 ELSE IF t = "7D" THEN 7 ELSE IF t = "1M" THEN 30
     ELSE IF t = "3M" THEN 90 ELSE 365]

Bounded == query.timeRange \in DOMAIN ClaimedDays

LowerBound == Now - ClaimedDays[query.timeRange] * DaySeconds

\* the images of the store inside the request's time window
WindowRows ==
  {r \in DOMAIN imagesTable : Bounded => imagesTable[r].taken_on >= LowerBound}

WindowCount == Cardinality(WindowRows)

\* n = ceil(t / l) for l > 0
IsCeil(n, t, l) == n * l >= t /\ (n - 1) * l < t

Returned == pc = "returned"

Pagination == response[1].pagination

\* C3: when no storage call failed, total is the number of images in the time
\* window and totalPages is ceil(total / limit), whatever the later filters
\* and however many images the page carries.
C3_TotalIsWindowCount ==
  (Returned /\ failed = {} /\ limit > 0) =>
    /\ Pagination.total = WindowCount
    /\ IsCeil(Pagination.totalPages, Pagination.total, limit)

\* C4: a page beyond the rows of the time window has no images and still
\* reports the window's count and ceil(total / limit), with page unclamped.
C4_OutOfRangeKeepsTotals ==
  (Returned /\ failed = {} /\ limit > 0 /\ offset >= WindowCount) =>
    /\ response[1].images = <<>>
    /\ Pagination.page = page
    /\ Pagination.total = WindowCount
    /\ IsCeil(Pagination.totalPages, Pagination.total, limit)

\* C5: no payload is returned once a storage call has failed, and no call is
\* issued twice.
C5_FailureAborts ==
  /\ Returned => failed = {}
  /\ \A i, j \in DOMAIN calls : calls[i] = calls[j] => i = j

\* C6: every returned payload has images, pagination {page, limit, total,
\* totalPages} and filters {timeRange, species}; timeRange echoes the token
\* ("All" when absent) and species the filter (null when absent).
C6_PayloadShape ==
  Returned =>
    /\ DOMAIN response[1] = {"images", "pagination", "filters"}
    /\ DOMAIN Pagination = {"page", "limit", "total", "totalPages"}
    /\ DOMAIN response[1].filters = {"timeRange", "species"}
    /\ response[1].filters.timeRange
         = (IF query.timeRange = "undefined" THEN "All" ELSE query.timeRange)
    /\ response[1].filters.species
         = (IF query.species = Undefined THEN NullLabel ELSE query.species)

\* reading a parameter as the claims do: blanks, a sign, then digits
Lead(s) == Cardinality({k \in DOMAIN s : \A i \in 1..k : s[i] = " "})

Signed(s) == Lead(s) < Len(s) /\ s[Lead(s) + 1] \in {"-", "+"}

Body(s) == SubSeq(s, Lead(s) + (IF Signed(s) THEN 2 ELSE 1), Len(s))

DigitCount(s) == Cardinality({k \in DOMAIN s : \A i \in 1..k : s[i] \in Digits})

RECURSIVE Decimal(_)
Decimal(d) ==
  IF d = <<>> THEN 0
  ELSE 10 * Decimal(SubSeq(d, 1, Len(d) - 1)) + DigitVal(d[Len(d)])

\* the integer a parameter begins with; only read when HasLeadingInt
LeadingInt(s) ==
  LET v == Decimal(SubSeq(Body(s), 1, DigitCount(Body(s))))
  IN IF Signed(s) /\ s[Lead(s) + 1] = "-" THEN 0 - v ELSE v

HasLeadingInt(s) == s # Undefined /\ DigitCount(Body(s)) > 0

\* numeric as a whole: an optional minus sign and digits, nothing else
Numeric(s) ==
  /\ s # Undefined
  /\ LET d == IF s # <<>> /\ s[1] = "-" THEN Tail(s) ELSE s
     IN d # <<>> /\ \A i \in DOMAIN d : d[i] \in Digits

Requested(s) == IF s[1] = "-" THEN 0 - Decimal(Tail(s)) ELSE Decimal(s)

Started == pc # "start"

C8_TimeWindow ==
  Started =>
    /\ dateThreshold = (IF Bounded THEN <<LowerBound>> ELSE <<>>)
    /\ count # <<>> => count[1] = WindowCount
    /\ \A i \in DOMAIN images : Bounded => images[i].taken_on >= LowerBound
    /\ (Succeeded("page") /\ offset = 0 /\ limit >= WindowCount) =>
         {images[i] : i \in DOMAIN images} = {imagesTable[r] : r \in WindowRows}

\* a month's window keeps one image and leaves out one taken a second before
\* the bound; a token in another case keeps both
C8_Witness ==
  /\ Len(imagesTable) = 2
  /\ Succeeded("page")
  /\ \/ query.timeRange = "1M" /\ Len(images) = 1 /\ count = <<1>>
        /\ \E r \in DOMAIN imagesTable : imagesTable[r].taken_on = LowerBound - 1
     \/ query.timeRange = "1d" /\ Len(images) = 2 /\ count = <<2>>

Newer(t) == Cardinality({r \in WindowRows : imagesTable[r].taken_on > t})

NotOlder(t) == Cardinality({r \in WindowRows : imagesTable[r].taken_on >= t})

Min(a, b) == IF a < b THEN a ELSE b

Max(a, b) == IF a > b THEN a ELSE b

\* C9: for page p >= 1 and limit l >= 1 the fetched images are the rows at
\* positions (p-1)*l .. (p-1)*l + l - 1 of the window's images, newest first,
\* cut at the last row: a trailing part, possibly empty.
C9_PageWindow ==
  (Succeeded("page") /\ page >= 1 /\ limit >= 1) =>
    /\ Len(images) = Max(0, Min(limit, WindowCount - (page - 1) * limit))
    /\ \A i \in DOMAIN images : \E r \in WindowRows : imagesTable[r] = images[i]
    /\ \A i, j \in DOMAIN images : images[i].id = images[j].id => i = j
    /\ \A j \in DOMAIN images :
         /\ Newer(images[j].taken_on) <= (page - 1) * limit + j - 1
         /\ NotOlder(images[j].taken_on) >= (page - 1) * limit + j

\* limit=1, page=2 over three images of distinct instants: the second newest
\* alone is fetched, and the payload reports total 3 and totalPages 3
C9_Witness ==
  /\ Returned
  /\ query.page = <<"2">> /\ query.limit = <<"1">>
  /\ WindowCount = 3
  /\ Len(images) = 1 /\ Newer(images[1].taken_on) = 1 /\ NotOlder(images[1].taken_on) = 2
  /\ Pagination.total = 3 /\ Pagination.totalPages = 3

Position(id) == CHOOSE i \in DOMAIN images : images[i].id = id

\* C10 as written: the listed images are strictly descending by capture
\* instant.
C10_StrictlyDescending ==
  Composed =>
    \A a, b \in DOMAIN response[1].images :
      a < b => response[1].images[a].taken_on > response[1].images[b].taken_on

\* C10 amended: the listed images are descending by capture instant, equal
\* instants allowed next to each other; they are fetched images in the order
\* the fetcher returned them, and no more than were fetched.
C10_Descending ==
  Composed =>
    /\ \A a, b \in DOMAIN response[1].images :
         a < b => response[1].images[a].taken_on >= response[1].images[b].taken_on
    /\ \A a \in DOMAIN response[1].images :
         \E i \in DOMAIN images :
           /\ images[i].id = response[1].images[a].id
           /\ images[i].taken_on = response[1].images[a].taken_on
    /\ \A a, b \in DOMAIN response[1].images :
         a < b => Position(response[1].images[a].id) < Position(response[1].images[b].id)
    /\ Len(response[1].images) <= Len(images)

\* two listed images, the newer first although the store holds it second
C10_Witness ==
  /\ Composed
  /\ Len(response[1].images) = 2
  /\ response[1].images[1].taken_on > response[1].images[2].taken_on
  /\ response[1].images[1].id > response[1].images[2].id

Issued(call) == \E i \in DOMAIN calls : calls[i] = call

Exists == \E r \in DOMAIN imagesTable : imagesTable[r].id = query.id

\* C11: for an id matching no image the handler returns {error: "Image not
\* found", status: 404} without raising and without the attribution query;
\* any other failure of the lookup is raised; for an existing image the
\* payload is the image with all its attributions, highest confidence first.
C11_ImageById ==
  /\ (Returned /\ ~Exists) =>
       /\ response[1] = [error |-> "Image not found", status |-> 404]
       /\ ~Issued("attributions")
  /\ ~Exists => pc # "imageAttributions"
  /\ "image" \in failed => pc = "thrown" /\ response = <<>> /\ ~Issued("attributions")
  /\ (Returned /\ Exists) =>
       /\ \E r \in DOMAIN imagesTable :
            /\ imagesTable[r].id = query.id
            /\ response[1].id = imagesTable[r].id
            /\ response[1].taken_on = imagesTable[r].taken_on
       /\ Len(response[1].attributions) = Cardinality(StoreRows(query.id))
       /\ \A j \in DOMAIN response[1].attributions :
            response[1].attributions[j].image_id = query.id
       /\ \A r \in StoreRows(query.id) :
            Occurrences(response[1].attributions, attributionsTable[r])
              = Cardinality({q \in StoreRows(query.id) :
                               attributionsTable[q] = attributionsTable[r]})
       /\ \A a, b \in DOMAIN response[1].attributions :
            a < b => response[1].attributions[a].confidence
                       >= response[1].attributions[b].confidence

\* an unknown id answered with the 404 payload after the lookup alone
C11_Witness ==
  /\ Returned /\ ~Exists
  /\ imagesTable # <<>>
  /\ calls = <<"image">>
  /\ response[1].status = 404

LabelRows(sp) == {r \in DOMAIN attributionsTable : attributionsTable[r].species = sp}

Entries == response[1].species

\* C12: the payload has exactly one entry per distinct non-blank label of the
\* store, its count is the number of attributions with exactly that label
\* whatever image owns them, no entry has a blank or missing label, and the
\* entries are in descending order of count.
C12_SpeciesCounts ==
  Returned =>
    /\ \A r \in DOMAIN attributionsTable :
         ~Blank(attributionsTable[r].species) =>
           Cardinality({k \in DOMAIN Entries :
                          Entries[k].species = attributionsTable[r].species}) = 1
    /\ \A k \in DOMAIN Entries :
         /\ ~Blank(Entries[k].species)
         /\ Entries[k].count = Cardinality(LabelRows(Entries[k].species))
         /\ Entries[k].count >= 1
    /\ \A a, b \in DOMAIN Entries : a < b => Entries[a].count >= Entries[b].count

\* two labels, the one met first counted once and listed second, the other
\* counted twice over two images
C12_Witness ==
  /\ Returned
  /\ Len(Entries) = 2
  /\ Entries[1].count = 2 /\ Entries[2].count = 1
  /\ attributions[1].species = Entries[2].species
  /\ \E r, q \in LabelRows(Entries[1].species) :
       attributionsTable[r].image_id # attributionsTable[q].image_id

Before(first, second) ==
  \E i, j \in DOMAIN calls : i < j /\ calls[i] = first /\ calls[j] = second

\* C13: the attribution query is issued only after the page query has
\* answered without error and with at least one image; a page of zero rows
\* returns an empty result at once, with no attribution query and nothing
\* grouped or filtered.
C13_AttributionsAfterPage ==
  /\ Issued("attributions") =>
       Before("page", "attributions") /\ "page" \notin failed /\ images # <<>>
  /\ pc = "attributions" => Succeeded("page") /\ images # <<>>
  /\ (Succeeded("page") /\ images = <<>>) =>
       /\ Returned
       /\ response[1].images = <<>>
       /\ ~Issued("attributions")
       /\ attributions = <<>>

\* a page beyond the rows of a store that holds attributions: returned after
\* the count and page queries alone
C13_Witness ==
  /\ Returned
  /\ images = <<>>
  /\ attributionsTable # <<>>
  /\ calls = <<"count", "page">>
  /\ response[1].images = <<>>

\* C14: whatever the page and limit parameters, the offset passed to the page
\* query is >= 0 and the page size is >= 1, so offset..offset+limit-1 is a
\* non-empty window, and totalPages is never negative.
C14_WindowWellFormed ==
  Started =>
    /\ offset >= 0
    /\ limit >= 1
    /\ offset + limit - 1 >= offset
    /\ (Returned /\ "filters" \in DOMAIN response[1]) => Pagination.totalPages >= 0

====
